---- MODULE Spec2Model ----
(***************************************************************************)
(* A model of pex/distribution_target.py: the DistributionTarget value     *)
(* (a local interpreter or a foreign platform) and the DistributionTargets *)
(* configuration whose unique_targets() expands into an ordered set of     *)
(* DistributionTarget values.                                              *)
(*                                                                         *)
(* Python values are tagged records.  A str is the sequence of its         *)
(* characters, so that replace/lstrip/str() are computed, not assumed.     *)
(***************************************************************************)
EXTENDS Integers, Sequences, FiniteSets, TLC

VARIABLES ambient, self, other, call, ret

vars == <<ambient, self, other, call, ret>>

(***************************************************************************)
(* Bounds of the model.                                                    *)
(***************************************************************************)
\* longest interpreter binary path, in characters
MaxPathLen == 4
\* most entries of DistributionTargets.interpreters
MaxInterpreters == 2
\* most entries of DistributionTargets.platforms
MaxPlatforms == 2
\* most entries of the extras tuple given to requirement_applies
MaxExtras == 2

(***************************************************************************)
(* Python values.                                                          *)
(***************************************************************************)
None == [tag |-> "None"]

Str(s) == [tag |-> "str", chars |-> s]

\* a bool object
PyBool(b) == [tag |-> "bool", bool |-> b]

\* a tuple object
Tuple(items) == [tag |-> "tuple", items |-> items]

\* os.sep of the POSIX build
os_sep == "/"

\* the characters binary paths are made of: the separator, the dot, a letter
PathChars == {os_sep, ".", "a"}

RECURSIVE StringsUpTo(_, _)
StringsUpTo(chars, n) ==
    IF n = 0 THEN {<<>>}
    ELSE LET shorter == StringsUpTo(chars, n - 1)
         IN  shorter \cup {Append(s, c) : s \in shorter, c \in chars}

\* an absolute path that names a file: it starts at the root and its last
\* component holds a letter
IsFilePath(s) ==
    /\ Len(s) > 0
    /\ s[1] = os_sep
    /\ \E i \in 1..Len(s) : s[i] = "a" /\ \A j \in (i + 1)..Len(s) : s[j] # os_sep

\* the binary of an interpreter: every file path of at most MaxPathLen characters
Binaries == {s \in StringsUpTo(PathChars, MaxPathLen) : IsFilePath(s)}

\* a PythonInterpreter handle; two handles are equal iff they wrap the same binary
PythonInterpreter(binary) == [tag |-> "PythonInterpreter", binary |-> binary]

\* every interpreter handle
AllInterpreters == {PythonInterpreter(b) : b \in Binaries}

\* PythonInterpreter.get(): the interpreter running the program
PythonInterpreter_get == PythonInterpreter(<<"/", "a">>)

\* the interpreters a configuration names: the ambient one and two others
Interpreters ==
    {PythonInterpreter_get, PythonInterpreter(<<"/", ".", "a">>),
     PythonInterpreter(<<"/", "a", "a">>)}

\* a Platform value: the named tuple (platform, impl, version, abi)
Platform(platform, impl, version, abi) ==
    [tag |-> "Platform", platform |-> platform, impl |-> impl, version |-> version,
     abi |-> abi]

Platforms ==
    {Platform(<<"l">>, <<"c", "p">>, <<"3", "7">>, <<"m">>),
     Platform(<<"m">>, <<"c", "p">>, <<"3", "8">>, <<"c">>)}

\* the manylinux arguments: absent, the empty string, a policy name
Manylinuxes == {None, Str(<<>>), Str(<<"m", "1">>)}

\* Python truth value: None and the empty str are false, objects and non-empty
\* tuples (a Platform is a 4-tuple) are true
Truthy(v) ==
    CASE v.tag = "None" -> FALSE
      [] v.tag = "str" -> Len(v.chars) > 0
      [] OTHER -> TRUE

(***************************************************************************)
(* DistributionTarget.                                                     *)
(***************************************************************************)
AmbiguousTargetError == [tag |-> "AmbiguousTargetError"]

ManylinuxOutOfContextError == [tag |-> "ManylinuxOutOfContextError"]

IsError(v) == v.tag \in {"AmbiguousTargetError", "ManylinuxOutOfContextError"}

DistributionTarget(interpreter, platform, manylinux) ==
    [tag |-> "DistributionTarget", _interpreter |-> interpreter, _platform |-> platform,
     _manylinux |-> manylinux]

\* __init__ without the default interpreter
DistributionTarget_init_no_default(interpreter, platform, manylinux) ==
    IF Truthy(interpreter) /\ Truthy(platform) THEN AmbiguousTargetError
    ELSE IF Truthy(manylinux) /\ ~Truthy(platform) THEN ManylinuxOutOfContextError
         ELSE DistributionTarget(interpreter, platform, manylinux)

\* __init__ testing its arguments with "is not None" in place of their truth value
DistributionTarget_init_is_not_none(interpreter, platform, manylinux) ==
    IF interpreter # None /\ platform # None THEN AmbiguousTargetError
    ELSE LET interpreter1 ==
                 IF interpreter = None /\ platform = None THEN PythonInterpreter_get
                 ELSE interpreter
         IN  IF manylinux # None /\ platform = None THEN ManylinuxOutOfContextError
             ELSE DistributionTarget(interpreter1, platform, manylinux)

\* __init__: the new object, or the exception it raises
DistributionTarget_init(interpreter, platform, manylinux) ==
    IF Truthy(interpreter) /\ Truthy(platform) THEN AmbiguousTargetError
    ELSE LET interpreter1 ==
                 IF ~Truthy(interpreter) /\ ~Truthy(platform) THEN PythonInterpreter_get
                 ELSE interpreter
         IN  IF Truthy(manylinux) /\ ~Truthy(platform) THEN ManylinuxOutOfContextError
             ELSE DistributionTarget(interpreter1, platform, manylinux)

current == DistributionTarget_init(None, None, None)

for_interpreter(interpreter) == DistributionTarget_init(interpreter, None, None)

for_platform(platform, manylinux) == DistributionTarget_init(None, platform, manylinux)

is_platform(t) == t._platform # None

is_interpreter(t) == t._interpreter # None

get_interpreter(t) == IF Truthy(t._interpreter) THEN t._interpreter ELSE PythonInterpreter_get

\* is_foreign without the early return for interpreter targets
is_foreign_no_early_return(t) == t._platform \notin ambient.supported_platforms

\* ambient.supported_platforms is PythonInterpreter.get().supported_platforms
is_foreign(t) ==
    IF is_interpreter(t) THEN FALSE
    ELSE t._platform \notin ambient.supported_platforms

get_platform(t) ==
    IF t._platform # None THEN Tuple(<<t._platform, t._manylinux>>)
    ELSE Tuple(<<ambient.platform, None>>)

(***************************************************************************)
(* The life of one DistributionTarget: construction, then queries.         *)
(***************************************************************************)
NoCall == [op |-> "none"]

\* the ambient runtime: the platform of the running interpreter and the
\* platforms it supports
Ambients ==
    [platform : Platforms, supported_platforms : SUBSET Platforms]

Init ==
    /\ ambient \in Ambients
    /\ self = None
    /\ other = None
    /\ call = NoCall
    /\ ret = None

\* the object a constructor call leaves bound: the new one, or the one bound
\* before when the call raised
Bound(result) == IF IsError(result) THEN self ELSE result

New ==
    \E interpreter \in Interpreters \cup {None}, platform \in Platforms \cup {None},
       manylinux \in Manylinuxes :
        /\ call' = [op |-> "__init__", interpreter |-> interpreter, platform |-> platform,
                    manylinux |-> manylinux]
        /\ ret' = DistributionTarget_init(interpreter, platform, manylinux)
        /\ self' = Bound(ret')
        /\ UNCHANGED <<ambient, other>>

Current ==
    /\ call' = [op |-> "current"]
    /\ ret' = current
    /\ self' = Bound(ret')
    /\ UNCHANGED <<ambient, other>>

ForInterpreter ==
    \E interpreter \in Interpreters :
        /\ call' = [op |-> "for_interpreter", interpreter |-> interpreter]
        /\ ret' = for_interpreter(interpreter)
        /\ self' = Bound(ret')
        /\ UNCHANGED <<ambient, other>>

ForPlatform ==
    \E platform \in Platforms, manylinux \in Manylinuxes :
        /\ call' = [op |-> "for_platform", platform |-> platform, manylinux |-> manylinux]
        /\ ret' = for_platform(platform, manylinux)
        /\ self' = Bound(ret')
        /\ UNCHANGED <<ambient, other>>

IsPlatform ==
    /\ self # None
    /\ call' = [op |-> "is_platform"]
    /\ ret' = PyBool(is_platform(self))
    /\ UNCHANGED <<ambient, self, other>>

IsInterpreter ==
    /\ self # None
    /\ call' = [op |-> "is_interpreter"]
    /\ ret' = PyBool(is_interpreter(self))
    /\ UNCHANGED <<ambient, self, other>>

IsForeign ==
    /\ self # None
    /\ call' = [op |-> "is_foreign"]
    /\ ret' = PyBool(is_foreign(self))
    /\ UNCHANGED <<ambient, self, other>>

GetInterpreter ==
    /\ self # None
    /\ call' = [op |-> "get_interpreter"]
    /\ ret' = get_interpreter(self)
    /\ UNCHANGED <<ambient, self, other>>

GetPlatform ==
    /\ self # None
    /\ call' = [op |-> "get_platform"]
    /\ ret' = get_platform(self)
    /\ UNCHANGED <<ambient, self, other>>

Next ==
    \/ New
    \/ Current
    \/ ForInterpreter
    \/ ForPlatform
    \/ IsPlatform
    \/ IsInterpreter
    \/ IsForeign
    \/ GetInterpreter
    \/ GetPlatform

Spec == Init /\ [][Next]_vars

(***************************************************************************)
(* Identity of a DistributionTarget: id, _tup, __eq__, __hash__.           *)
(***************************************************************************)
\* str.replace(old, new) for a one-character old and new
Replace(s, old, new) == [i \in 1..Len(s) |-> IF s[i] = old THEN new ELSE s[i]]

\* str.lstrip(c): every leading c removed
RECURSIVE LStrip(_, _)
LStrip(s, c) == IF Len(s) > 0 /\ s[1] = c THEN LStrip(Tail(s), c) ELSE s

\* str(platform): the fields joined by "-"
Platform_str(p) == p.platform \o <<"-">> \o p.impl \o <<"-">> \o p.version \o <<"-">> \o p.abi

\* id without the replacement of the separators
id_no_replace(t) ==
    IF is_interpreter(t) THEN LStrip(get_interpreter(t).binary, ".")
    ELSE Platform_str(t._platform)

id(t) ==
    IF is_interpreter(t)
    THEN LStrip(Replace(get_interpreter(t).binary, os_sep, "."), ".")
    ELSE Platform_str(t._platform)

\* _tup with the manylinux value as a third component
_tup_with_manylinux(t) == <<t._interpreter, t._platform, t._manylinux>>

_tup(t) == <<t._interpreter, t._platform>>

NotImplemented == [tag |-> "NotImplemented"]

DistributionTarget_eq(t, o) ==
    IF o.tag # "DistributionTarget" THEN NotImplemented ELSE PyBool(_tup(t) = _tup(o))

\* bits of a hash value
HashBits == 12

\* the characters of the model, in code point order
Charset == <<"-", ".", "/", "1", "3", "7", "8", "a", "c", "l", "m", "p">>

Ord(c) == CHOOSE i \in 1..Len(Charset) : Charset[i] = c

\* hash() of a sequence of hash values, as the polynomial tuple and str hashes are
RECURSIVE HashCombine(_, _)
HashCombine(seed, hs) ==
    IF hs = <<>> THEN seed
    ELSE HashCombine((seed * 31 + Head(hs)) % (2 ^ HashBits), Tail(hs))

StrHash(s) == HashCombine(7, [i \in 1..Len(s) |-> Ord(s[i])])

\* hash() of a value: equal values hash alike
PyHash(v) ==
    CASE v.tag = "None" -> 5
      [] v.tag = "str" -> StrHash(v.chars)
      [] v.tag = "PythonInterpreter" -> StrHash(v.binary)
      [] v.tag = "Platform" ->
            HashCombine(3, <<StrHash(v.platform), StrHash(v.impl), StrHash(v.version),
                             StrHash(v.abi)>>)

DistributionTarget_hash(t) == HashCombine(3, [i \in 1..Len(_tup(t)) |-> PyHash(_tup(t)[i])])

\* every target the factory methods build
Targets ==
    {for_interpreter(i) : i \in AllInterpreters}
        \cup {for_platform(p, m) : p \in Platforms, m \in Manylinuxes}

AmbientDefault == CHOOSE a \in Ambients : a.supported_platforms = {a.platform}

\* two targets, then the identity operations applied to them
InitPair ==
    /\ ambient = AmbientDefault
    /\ self \in Targets
    /\ other \in Targets
    /\ call = NoCall
    /\ ret = None

Eq ==
    /\ call' = [op |-> "__eq__"]
    /\ ret' = DistributionTarget_eq(self, other)
    /\ UNCHANGED <<ambient, self, other>>

Hash ==
    /\ call' = [op |-> "__hash__"]
    /\ ret' = [self_hash |-> DistributionTarget_hash(self),
               other_hash |-> DistributionTarget_hash(other)]
    /\ UNCHANGED <<ambient, self, other>>

Id ==
    /\ call' = [op |-> "id"]
    /\ ret' = [self_id |-> id(self), other_id |-> id(other)]
    /\ UNCHANGED <<ambient, self, other>>

NextPair ==
    \/ Eq
    \/ Hash
    \/ Id

SpecPair == InitPair /\ [][NextPair]_vars

(***************************************************************************)
(* requirement_applies.                                                    *)
(***************************************************************************)
\* a marker: a comparison of an environment variable with a literal, or two
\* markers joined by and / or
Cmp(var, op, value) == [kind |-> "cmp", var |-> var, op |-> op, value |-> value]

Bool(kind, lhs, rhs) == [kind |-> kind, lhs |-> lhs, rhs |-> rhs]

ExtraIsX == Cmp("extra", "==", <<"x">>)

OnLinux == Cmp("sys_platform", "==", <<"l">>)

Markers ==
    {ExtraIsX, Cmp("extra", "!=", <<"x">>), Cmp("extra", "==", <<"y">>), OnLinux,
     Cmp("sys_platform", "!=", <<"l">>), Bool("and", ExtraIsX, OnLinux),
     Bool("or", ExtraIsX, OnLinux)}

Requirement(marker) == [tag |-> "Requirement", marker |-> marker]

\* Marker.evaluate(environment)
RECURSIVE Marker_evaluate(_, _)
Marker_evaluate(marker, environment) ==
    CASE marker.kind = "cmp" ->
            IF marker.op = "==" THEN environment[marker.var] = marker.value
            ELSE environment[marker.var] # marker.value
      [] marker.kind = "and" ->
            Marker_evaluate(marker.lhs, environment) /\ Marker_evaluate(marker.rhs, environment)
      [] marker.kind = "or" ->
            Marker_evaluate(marker.lhs, environment) \/ Marker_evaluate(marker.rhs, environment)

\* MarkerEnvironment.from_platform(platform).as_dict()
MarkerEnvironment_from_platform(platform) == [sys_platform |-> platform.platform]

\* interpreter.identity.env_markers.as_dict(): a local interpreter runs on the
\* ambient platform
env_markers(interpreter) == [sys_platform |-> ambient.platform.platform]

\* d[key] = value on a copy of the dict d
SetItem(d, key, value) ==
    [k \in DOMAIN d \cup {key} |-> IF k = key THEN value ELSE d[k]]

\* the for loop over extras, from index i on
RECURSIVE AnyExtraApplies(_, _, _, _)
AnyExtraApplies(marker, marker_environment, extras, i) ==
    IF i > Len(extras) THEN FALSE
    ELSE IF Marker_evaluate(marker, SetItem(marker_environment, "extra", extras[i]))
         THEN TRUE
         ELSE AnyExtraApplies(marker, marker_environment, extras, i + 1)

\* requirement_applies without the empty extra that stands in for no extras
requirement_applies_no_empty_extra(t, requirement, extras) ==
    IF requirement.marker = None THEN TRUE
    ELSE LET marker_environment ==
                 IF t._platform # None THEN MarkerEnvironment_from_platform(t._platform)
                 ELSE env_markers(get_interpreter(t))
             extras1 == IF extras = None THEN <<>> ELSE extras.items
         IN  AnyExtraApplies(requirement.marker, marker_environment, extras1, 1)

\* extras is None or a tuple of str
requirement_applies(t, requirement, extras) ==
    IF requirement.marker = None THEN TRUE
    ELSE LET marker_environment ==
                 IF t._platform # None THEN MarkerEnvironment_from_platform(t._platform)
                 ELSE env_markers(get_interpreter(t))
             extras1 ==
                 IF extras = None \/ Len(extras.items) = 0 THEN <<(<<>>)>>
                 ELSE extras.items
         IN  AnyExtraApplies(requirement.marker, marker_environment, extras1, 1)

Extras == {<<>>, <<"x">>, <<"y">>}

RECURSIVE TuplesUpTo(_, _)
TuplesUpTo(S, n) ==
    IF n = 0 THEN {<<>>}
    ELSE LET shorter == TuplesUpTo(S, n - 1)
         IN  shorter \cup {Append(t, x) : t \in shorter, x \in S}

\* the targets of the interpreters and platforms a configuration names
SomeTargets ==
    {for_interpreter(i) : i \in Interpreters}
        \cup {for_platform(p, m) : p \in Platforms, m \in Manylinuxes}

\* a target and the arguments of the call, then the call
InitApplies ==
    /\ ambient \in Ambients
    /\ self \in SomeTargets
    /\ other \in [requirement : {Requirement(m) : m \in Markers \cup {None}},
                  extras : {Tuple(t) : t \in TuplesUpTo(Extras, MaxExtras)} \cup {None}]
    /\ call = NoCall
    /\ ret = None

RequirementApplies ==
    /\ call' = [op |-> "requirement_applies"]
    /\ ret' = PyBool(requirement_applies(self, other.requirement, other.extras))
    /\ UNCHANGED <<ambient, self, other>>

NextApplies == RequirementApplies

SpecApplies == InitApplies /\ [][NextApplies]_vars

(***************************************************************************)
(* DistributionTargets.                                                    *)
(***************************************************************************)
DistributionTargets(interpreters, platforms, assume_manylinux) ==
    [tag |-> "DistributionTargets", interpreters |-> interpreters,
     platforms |-> platforms, assume_manylinux |-> assume_manylinux]

\* the second loop yielding the current target for every None platform
RECURSIVE iter_platforms_none_always(_, _)
iter_platforms_none_always(ts, platforms) ==
    IF platforms = <<>> THEN <<>>
    ELSE LET platform == Head(platforms)
             yielded ==
                 IF platform = None THEN <<current>>
                 ELSE <<for_platform(platform, ts.assume_manylinux)>>
         IN  yielded \o iter_platforms_none_always(ts, Tail(platforms))

\* the second loop of iter_targets: what the platforms yield, in order
RECURSIVE iter_platforms(_, _)
iter_platforms(ts, platforms) ==
    IF platforms = <<>> THEN <<>>
    ELSE LET platform == Head(platforms)
             yielded ==
                 IF platform = None /\ Len(ts.interpreters) = 0 THEN <<current>>
                 ELSE IF platform # None
                      THEN <<for_platform(platform, ts.assume_manylinux)>>
                      ELSE <<>>
         IN  yielded \o iter_platforms(ts, Tail(platforms))

\* iter_targets handing assume_manylinux to the current target as well
iter_targets_manylinux_everywhere(ts) ==
    IF Len(ts.interpreters) = 0 /\ Len(ts.platforms) = 0
    THEN <<DistributionTarget_init(None, None, ts.assume_manylinux)>>
    ELSE [i \in 1..Len(ts.interpreters) |-> for_interpreter(ts.interpreters[i])]
            \o iter_platforms(ts, ts.platforms)

\* everything the generator yields, in order; a raised exception is its element
iter_targets(ts) ==
    IF Len(ts.interpreters) = 0 /\ Len(ts.platforms) = 0 THEN <<current>>
    ELSE [i \in 1..Len(ts.interpreters) |-> for_interpreter(ts.interpreters[i])]
            \o iter_platforms(ts, ts.platforms)

\* an OrderedSet object: its elements in insertion order
OrderedSet(items) == [tag |-> "OrderedSet", items |-> items]

\* x in s, for the elements s of an OrderedSet: an element of the same hash that equals x
OrderedSet_contains(s, x) ==
    \E i \in 1..Len(s) :
        /\ DistributionTarget_hash(s[i]) = DistributionTarget_hash(x)
        /\ DistributionTarget_eq(s[i], x) = PyBool(TRUE)

\* OrderedSet(iterable): each element added unless the set holds it already
RECURSIVE OrderedSet_update(_, _)
OrderedSet_update(s, iterable) ==
    IF iterable = <<>> THEN s
    ELSE OrderedSet_update(
             IF OrderedSet_contains(s, Head(iterable)) THEN s ELSE Append(s, Head(iterable)),
             Tail(iterable))

\* unique_targets returning the generated targets as they come
unique_targets_as_list(ts) ==
    LET yielded == iter_targets(ts)
        raised == {i \in 1..Len(yielded) : IsError(yielded[i])}
    IN  IF raised # {} THEN yielded[CHOOSE i \in raised : \A j \in raised : i <= j]
        ELSE OrderedSet(yielded)

\* the OrderedSet, or the exception the generator raised while it was consumed
unique_targets(ts) ==
    LET yielded == iter_targets(ts)
        raised == {i \in 1..Len(yielded) : IsError(yielded[i])}
    IN  IF raised # {} THEN yielded[CHOOSE i \in raised : \A j \in raised : i <= j]
        ELSE OrderedSet(OrderedSet_update(<<>>, yielded))

\* a configuration, then its expansion
InitTargets ==
    /\ ambient = AmbientDefault
    /\ self \in {DistributionTargets(is, ps, m) :
                    is \in TuplesUpTo(Interpreters, MaxInterpreters),
                    ps \in TuplesUpTo(Platforms \cup {None}, MaxPlatforms),
                    m \in Manylinuxes}
    /\ other = None
    /\ call = NoCall
    /\ ret = None

UniqueTargets ==
    /\ call' = [op |-> "unique_targets"]
    /\ ret' = unique_targets(self)
    /\ UNCHANGED <<ambient, self, other>>

NextTargets == UniqueTargets

SpecTargets == InitTargets /\ [][NextTargets]_vars

(***************************************************************************)
(* Properties of construction (checked under Spec).                        *)
(***************************************************************************)
Constructors == {"__init__", "current", "for_interpreter", "for_platform"}

\* C1: every constructed target holds exactly one of _interpreter and
\* _platform; with neither argument given it holds the ambient interpreter;
\* is_platform is the negation of is_interpreter.
C1_ExactlyOne ==
    /\ self # None =>
            \/ self._interpreter # None /\ self._platform = None
            \/ self._interpreter = None /\ self._platform # None
    /\ (call.op \in Constructors /\ ~IsError(ret)) => ret = self
    /\ (call.op = "__init__" /\ call.interpreter = None /\ call.platform = None
            /\ ~IsError(ret)) =>
            self._interpreter = PythonInterpreter_get
    /\ call.op = "current" => ret = DistributionTarget(PythonInterpreter_get, None, None)
    /\ call.op = "is_platform" => ret = PyBool(~(self._interpreter # None))
    /\ call.op = "is_interpreter" => ret = PyBool(~(self._platform # None))

\* the general constructor called with neither an interpreter nor a platform
C1_Witness ==
    /\ call.op = "__init__"
    /\ call.interpreter = None
    /\ call.platform = None
    /\ ret = self
    /\ self._interpreter = PythonInterpreter_get
    /\ self._platform = None

\* what the general constructor c returned, r, given which arguments count as
\* supplied
C2_Outcome(c, r, interpreterGiven, platformGiven, hintGiven) ==
    IF interpreterGiven /\ platformGiven THEN r = AmbiguousTargetError
    ELSE IF hintGiven /\ ~platformGiven THEN r = ManylinuxOutOfContextError
    ELSE /\ r.tag = "DistributionTarget"
         /\ r._platform = c.platform
         /\ r._manylinux = c.manylinux

\* C2 as stated: interpreter and platform both given raises
\* AmbiguousTargetError, a hint (any value but None) given without a platform
\* raises ManylinuxOutOfContextError, every other call succeeds; a failed call
\* leaves no new target, and every target with a hint has a platform.
C2_AsStated ==
    [][/\ call'.op = "__init__" =>
            C2_Outcome(call', ret', call'.interpreter # None, call'.platform # None,
                       call'.manylinux # None)
       /\ (call'.op \in Constructors /\ IsError(ret')) => self' = self
       /\ self' # None => (self'._manylinux # None => self'._platform # None)]_vars

\* C2 amended: the hint counts as given when it is a non-empty string; the
\* empty string without a platform constructs a target that stores it.
C2_NonEmptyHint ==
    [][/\ call'.op = "__init__" =>
            C2_Outcome(call', ret', call'.interpreter # None, call'.platform # None,
                       call'.manylinux \notin {None, Str(<<>>)})
       /\ (call'.op \in Constructors /\ IsError(ret')) => self' = self
       /\ (call'.op \in Constructors /\ ~IsError(ret')) => self' = ret'
       /\ self' # None =>
            (self'._manylinux \notin {None, Str(<<>>)} => self'._platform # None)]_vars

\* a failed construction after a successful one, and the target of the first
\* still the only one
C2_Witness ==
    /\ call.op = "__init__"
    /\ call.manylinux = Str(<<"m", "1">>)
    /\ call.platform = None
    /\ ret = ManylinuxOutOfContextError
    /\ self # None
    /\ self._platform # None

\* C9: is_foreign is true exactly for a platform target whose platform the
\* ambient interpreter does not support; it is false for every interpreter
\* target and for the current target.
C9_IsForeign ==
    call.op = "is_foreign" =>
        /\ ret = PyBool(self._platform # None
                          /\ self._platform \notin ambient.supported_platforms)
        /\ self._interpreter # None => ret = PyBool(FALSE)
        /\ self = DistributionTarget(PythonInterpreter_get, None, None) => ret = PyBool(FALSE)

\* is_foreign asked of a target of an interpreter other than the ambient one
C9_Witness ==
    /\ call.op = "is_foreign"
    /\ self._interpreter \notin {None, PythonInterpreter_get}
    /\ ret = PyBool(FALSE)

(***************************************************************************)
(* Properties of identity (checked under SpecPair).                        *)
(***************************************************************************)
SameFields(a, b) == a._interpreter = b._interpreter /\ a._platform = b._platform

\* C5: two targets are equal exactly when their interpreters and their
\* platforms are, whatever their manylinux values, and equal targets have
\* equal hashes.
C5_StructuralIdentity ==
    /\ call.op = "__eq__" => ret = PyBool(SameFields(self, other))
    /\ (call.op = "__hash__" /\ SameFields(self, other)) => ret.self_hash = ret.other_hash

\* two targets of one platform with different manylinux values, hashed
C5_Witness ==
    /\ call.op = "__hash__"
    /\ self._platform # None
    /\ self._platform = other._platform
    /\ self._manylinux # other._manylinux
    /\ ret.self_hash = ret.other_hash

\* C7: two targets that differ in interpreter or platform have different ids.
C7_UniqueId ==
    (call.op = "id" /\ ~SameFields(self, other)) => ret.self_id # ret.other_id

HasChar(s, c) == \E i \in 1..Len(s) : s[i] = c

\* label is path with every separator turned into "." and then every leading
\* "." dropped
IsStrippedPath(label, path) ==
    \E n \in 0..Len(path) :
        /\ Len(label) = Len(path) - n
        /\ \A i \in 1..n : path[i] \in {os_sep, "."}
        /\ \A i \in 1..Len(label) :
                label[i] = IF path[n + i] = os_sep THEN "." ELSE path[n + i]
        /\ Len(label) > 0 => label[1] # "."

\* C8: an id holds no path separator; the id of an interpreter target is the
\* binary's path with separators replaced by "." and leading "." stripped, the
\* id of a platform target is str(platform).
C8_NoSeparator ==
    call.op = "id" =>
        \A k \in {"self_id", "other_id"} :
            LET t == IF k = "self_id" THEN self ELSE other
            IN  /\ ~HasChar(ret[k], os_sep)
                /\ t._interpreter # None => IsStrippedPath(ret[k], t._interpreter.binary)
                /\ t._platform # None => ret[k] = Platform_str(t._platform)

\* the id of an interpreter whose path has a separator inside it
C8_Witness ==
    /\ call.op = "id"
    /\ self._interpreter # None
    /\ \E i \in 2..Len(self._interpreter.binary) :
            /\ self._interpreter.binary[i] = os_sep
            /\ self._interpreter.binary[i - 1] = "a"
    /\ HasChar(ret.self_id, ".")
    /\ other._platform # None

(***************************************************************************)
(* Properties of requirement_applies (checked under SpecApplies).          *)
(***************************************************************************)
\* the extras the marker is tried with: the given ones, or the empty extra
C6_Candidates(extras) ==
    IF extras = None \/ extras.items = <<>> THEN {<<>>}
    ELSE {extras.items[i] : i \in 1..Len(extras.items)}

\* the sys_platform the markers of target t are evaluated with
C6_SysPlatform(t) ==
    IF t._platform # None THEN t._platform.platform ELSE ambient.platform.platform

CurrentTarget == DistributionTarget(PythonInterpreter_get, None, None)

InterpreterTarget(interpreter) == DistributionTarget(interpreter, None, None)

IsConcrete(platform) == platform # None

\* the targets a configuration asks for, in the order it names them: those of
\* the interpreters, then those of the platforms, a None platform standing for
\* the current target when no interpreter is named and for nothing otherwise
C3_Generated(ts) ==
    LET platforms ==
            IF Len(ts.interpreters) = 0 THEN ts.platforms
            ELSE SelectSeq(ts.platforms, IsConcrete)
    IN  IF Len(ts.interpreters) = 0 /\ Len(ts.platforms) = 0 THEN <<CurrentTarget>>
        ELSE [i \in 1..Len(ts.interpreters) |-> InterpreterTarget(ts.interpreters[i])]
                \o [i \in 1..Len(platforms) |->
                        IF platforms[i] = None THEN CurrentTarget
                        ELSE DistributionTarget(None, platforms[i], ts.assume_manylinux)]

\* where target t first occurs in the sequence g
FirstIndex(g, t) == CHOOSE k \in 1..Len(g) : g[k] = t /\ \A j \in 1..(k - 1) : g[j] # t

\* C3: unique_targets returns the generated targets without duplicates, each
\* at the place of its first occurrence; an empty configuration gives the
\* current target alone, interpreters (A, B) give the targets of A and of B
\* in that order, one target when A = B.
C3_OrderedUnique ==
    call.op = "unique_targets" =>
        LET g == C3_Generated(self)
            r == ret.items
        IN  /\ ret.tag = "OrderedSet"
            /\ \A i, j \in 1..Len(r) : i # j => ~SameFields(r[i], r[j])
            /\ \A k \in 1..Len(g) : \E i \in 1..Len(r) : r[i] = g[k]
            /\ \A i \in 1..Len(r) : \E k \in 1..Len(g) : r[i] = g[k]
            /\ \A i, j \in 1..Len(r) : i < j => FirstIndex(g, r[i]) < FirstIndex(g, r[j])
            /\ (Len(self.interpreters) = 0 /\ Len(self.platforms) = 0) =>
                    r = <<CurrentTarget>>
            /\ (Len(self.interpreters) = 2 /\ Len(self.platforms) = 0) =>
                    r = IF self.interpreters[1] = self.interpreters[2]
                        THEN <<InterpreterTarget(self.interpreters[1])>>
                        ELSE <<InterpreterTarget(self.interpreters[1]),
                               InterpreterTarget(self.interpreters[2])>>

\* the same interpreter named twice and no platform
C3_Witness ==
    /\ call.op = "unique_targets"
    /\ Len(self.interpreters) = 2
    /\ self.interpreters[1] = self.interpreters[2]
    /\ Len(self.platforms) = 0
    /\ Len(ret.items) = 1

\* how many elements of the sequence r are the target t
Count(r, t) == Cardinality({i \in 1..Len(r) : r[i] = t})

\* C4: a None platform gives the current target exactly when no interpreter
\* is named, and then one current target however often None is repeated;
\* platforms (P, None) alone give the targets of P and of the current
\* runtime, interpreters (A) with platforms (None) give the target of A alone.
C4_NonePlatform ==
    call.op = "unique_targets" =>
        LET r == ret.items
            interpreters == {self.interpreters[i] : i \in 1..Len(self.interpreters)}
            platforms == {self.platforms[i] : i \in 1..Len(self.platforms)}
        IN  /\ (interpreters = {} /\ None \in platforms) => Count(r, CurrentTarget) = 1
            /\ (interpreters = {} /\ platforms # {} /\ None \notin platforms) =>
                    Count(r, CurrentTarget) = 0
            /\ interpreters # {} =>
                    /\ Len(r) = Cardinality(interpreters) + Cardinality(platforms \ {None})
                    /\ \A i \in 1..Len(r) :
                            \/ r[i]._interpreter \in interpreters
                            \/ r[i]._platform \in platforms \ {None}
            /\ (interpreters = {} /\ Len(self.platforms) = 2 /\ self.platforms[1] # None
                    /\ self.platforms[2] = None) =>
                    r = <<DistributionTarget(None, self.platforms[1], self.assume_manylinux),
                          CurrentTarget>>
            /\ (Len(self.interpreters) = 1 /\ platforms = {None}) =>
                    r = <<InterpreterTarget(self.interpreters[1])>>

\* an interpreter other than the ambient one named beside a None platform
C4_Witness ==
    /\ call.op = "unique_targets"
    /\ Len(self.interpreters) = 1
    /\ self.interpreters[1] # PythonInterpreter_get
    /\ Len(self.platforms) > 0
    /\ \A i \in 1..Len(self.platforms) : self.platforms[i] = None
    /\ ret.items = <<InterpreterTarget(self.interpreters[1])>>

\* C10: unique_targets raises nothing and returns at least one target and at
\* most max(1, |interpreters| + |platforms|); platform targets carry
\* assume_manylinux, interpreter and current targets carry no manylinux.
C10_ExpandTotal ==
    call.op = "unique_targets" =>
        /\ ret.tag = "OrderedSet"
        /\ Len(ret.items) >= 1
        /\ Len(ret.items) <= IF Len(self.interpreters) + Len(self.platforms) = 0 THEN 1
                              ELSE Len(self.interpreters) + Len(self.platforms)
        /\ \A i \in 1..Len(ret.items) :
                LET t == ret.items[i]
                IN  /\ t.tag = "DistributionTarget"
                    /\ t._platform = None => t._manylinux = None
                    /\ t._platform # None => t._manylinux = self.assume_manylinux

\* a manylinux value assumed by a configuration that names no platform at all
C10_Witness ==
    /\ call.op = "unique_targets"
    /\ self.assume_manylinux = Str(<<"m", "1">>)
    /\ Len(self.interpreters) = 0
    /\ Len(self.platforms) = 0
    /\ ret = OrderedSet(<<CurrentTarget>>)

====
